---- MODULE Spec2Model ----
(***************************************************************************)
(* A model of qspylib: the QSO / Logbook data model (logbook.py) and the   *)
(* response handling of the service clients (lotw.py, eqsl.py).            *)
(*                                                                         *)
(* Text is modelled as a sequence of tokens.  A token is either a chunk of *)
(* literal text or one ADIF field `<NAME:LEN>VALUE`.  Python's substring   *)
(* test and slicing are computed on the rendered character string.         *)
(***************************************************************************)
EXTENDS Integers, Sequences, FiniteSets, TLC

VARIABLES
    built,      \* TRUE once a Logbook object exists
    callsign,   \* Logbook.callsign
    adi,        \* Logbook.adi    : sequence of raw records (dicts)
    header,     \* Logbook.header : string
    log,        \* Logbook.log    : set of QSO objects
    objs,       \* QSO objects the caller constructed itself
    client,     \* the LOTWClient, or NoClient
    result,     \* outcome of the most recent call
    api,        \* the QRZXMLClient, QRZLogbookClient or eQSLClient, or NoApi
    sent        \* HTTP requests the most recent call of `api` has issued

vars == <<built, callsign, adi, header, log, objs, client, result, api, sent>>

lbvars == <<built, callsign, adi, header, log>>

(***************************************************************************)
(* Bounds of the exploration.                                              *)
(***************************************************************************)
MaxRecs == 2        \* records in a generated ADIF document
MaxQsos == 2        \* QSO objects the caller constructs directly
MaxChunks == 2      \* text chunks in a generated eQSL verification body
MaxLines == 2       \* member lines in a generated eQSL member list

(***************************************************************************)
(* Python values.                                                          *)
(***************************************************************************)
None == "<None>"

Min(a, b) == IF a < b THEN a ELSE b

\* s[:n]
str_slice_to(s, n) == SubSeq(s, 1, Min(n, Len(s)))

\* p in s
str_in(p, s) ==
    \E i \in 1..(Len(s) - Len(p) + 1) : SubSeq(s, i, i + Len(p) - 1) = p

\* d.get(key)
dict_get(d, key) == IF key \in DOMAIN d THEN d[key] ELSE None

\* d[key] = value
dict_set(d, key, value) ==
    [k \in (DOMAIN d) \cup {key} |-> IF k = key THEN value ELSE d[k]]

EmptyDict == [k \in {} |-> None]

\* truth value of an optional string
truthy(v) == v # None /\ v # ""

(***************************************************************************)
(* Text tokens and their rendering as a character string.                  *)
(***************************************************************************)
Txt(s) == [tag |-> "", val |-> s]

Fld(name, v) == [tag |-> name, val |-> v]

RenderTok(t) ==
    IF t.tag = "" THEN t.val
    ELSE "<" \o t.tag \o ":" \o ToString(Len(t.val)) \o ">" \o t.val

RECURSIVE Render(_)
Render(text) ==
    IF text = <<>> THEN "" ELSE RenderTok(Head(text)) \o Render(Tail(text))

(***************************************************************************)
(* adif_io.read_from_string: the header is the text before the             *)
(* end-of-header tag; each record is the run of fields up to an            *)
(* end-of-record tag; tag names are matched case-insensitively and stored  *)
(* in upper case.                                                          *)
(***************************************************************************)
UpperTable ==
    [t \in {"call", "eqsl_qsl_rcvd", "app_qrzlog_qsldate", "<eoh>", "<eor>"} |->
        CASE t = "call" -> "CALL"
          [] t = "eqsl_qsl_rcvd" -> "EQSL_QSL_RCVD"
          [] t = "app_qrzlog_qsldate" -> "APP_QRZLOG_QSLDATE"
          [] t = "<eoh>" -> "<EOH>"
          [] t = "<eor>" -> "<EOR>"]

upper(s) == IF s \in DOMAIN UpperTable THEN UpperTable[s] ELSE s

IsEoh(t) == t.tag = "" /\ upper(t.val) = "<EOH>"

IsEor(t) == t.tag = "" /\ upper(t.val) = "<EOR>"

EohIndex(text) ==
    IF \E i \in DOMAIN text : IsEoh(text[i])
    THEN CHOOSE i \in DOMAIN text :
            IsEoh(text[i]) /\ \A j \in 1..(i - 1) : ~IsEoh(text[j])
    ELSE 0

RECURSIVE read_records(_, _, _)
read_records(toks, cur, acc) ==
    IF toks = <<>> THEN acc
    ELSE LET t == Head(toks) IN
         IF IsEor(t) THEN read_records(Tail(toks), EmptyDict, Append(acc, cur))
         ELSE IF t.tag = "" THEN read_records(Tail(toks), cur, acc)
         ELSE read_records(Tail(toks), dict_set(cur, upper(t.tag), t.val), acc)

read_from_string(text) ==
    LET e == EohIndex(text) IN
    IF e = 0
    THEN [ok |-> FALSE, adi |-> <<>>, header |-> ""]
    ELSE [ok |-> TRUE,
          adi |-> read_records(SubSeq(text, e + 1, Len(text)), EmptyDict, <<>>),
          header |-> Render(SubSeq(text, 1, e - 1))]

(***************************************************************************)
(* class QSO.  An object has an identity (id) besides its attributes; the  *)
(* class defines neither __eq__ nor __hash__, so Python compares and       *)
(* hashes QSO objects by identity.                                         *)
(***************************************************************************)
QSO(id, their_call, band, mode, qso_date, time_on, qsl_rcvd) ==
    [id |-> id, their_call |-> their_call, band |-> band, mode |-> mode,
     qso_date |-> qso_date, time_on |-> time_on, qsl_rcvd |-> qsl_rcvd]

NoQSO == QSO(<<"none", 0>>, None, None, None, None, None, None)

\* a == b for QSO objects
QSO_eq(a, b) == a.id = b.id

\* set.add / set.discard on a set of QSO objects
set_add(s, x) == IF \E y \in s : QSO_eq(y, x) THEN s ELSE s \cup {x}

set_discard(s, x) == {y \in s : ~QSO_eq(y, x)}

(***************************************************************************)
(* Logbook.__init__, the body of its loop: the confirmation flag of one    *)
(* raw record and the QSO built from it.                                   *)
(***************************************************************************)
qso_confirmed(contact) ==
    LET qsl_rcvd      == dict_get(contact, "QSL_RCVD")
        qrz_qsl_dte   == dict_get(contact, "app_qrzlog_qsldate")
        eqsl_qsl_rcvd == dict_get(contact, "eqsl_qsl_rcvd")
    IN  IF qsl_rcvd = "Y" \/ truthy(qrz_qsl_dte) \/ eqsl_qsl_rcvd = "Y"
        THEN "Y" ELSE "N"

\* the subscripts contact['CALL'], ... in the order Python evaluates them
Required == <<"CALL", "BAND", "MODE", "QSO_DATE", "TIME_ON">>

\* contact.get(key) in place of contact[key]: never raises
contact_item_get(contact, key) == [ok |-> TRUE, v |-> dict_get(contact, key)]

\* contact[key]: raises KeyError(key) when the key is absent
contact_item(contact, key) ==
    [ok |-> key \in DOMAIN contact, v |-> dict_get(contact, key)]

qso_of_contact(contact, id) ==
    LET flag  == qso_confirmed(contact)
        items == [i \in 1..Len(Required) |-> contact_item(contact, Required[i])]
        bad   == {i \in 1..Len(Required) : ~items[i].ok}
    IN  IF bad # {}
        THEN [raised |-> TRUE,
              key |-> Required[CHOOSE i \in bad : \A j \in bad : i <= j],
              qso |-> NoQSO]
        ELSE [raised |-> FALSE, key |-> None,
              qso |-> QSO(id, items[1].v, items[2].v, items[3].v, items[4].v,
                          items[5].v, flag)]

\* for contact in self.adi: self.log.add(QSO(...))
RECURSIVE build_log(_, _, _)
build_log(recs, i, acc) ==
    IF i > Len(recs) THEN [raised |-> FALSE, key |-> None, log |-> acc]
    ELSE LET r == qso_of_contact(recs[i], <<"rec", i>>) IN
         IF r.raised THEN [raised |-> TRUE, key |-> r.key, log |-> acc]
         ELSE build_log(recs, i + 1, set_add(acc, r.qso))

\* Logbook(callsign, unparsed_log): what the constructor yields
Logbook(cs, unparsed_log) ==
    LET parsed == read_from_string(unparsed_log) IN
    IF ~parsed.ok
    THEN [raised |-> TRUE, exc |-> "AdifError", msg |-> "",
          callsign |-> cs, adi |-> <<>>, header |-> "", log |-> {}]
    ELSE LET b == build_log(parsed.adi, 1, {}) IN
         IF b.raised
         THEN [raised |-> TRUE, exc |-> "KeyError", msg |-> b.key,
               callsign |-> cs, adi |-> <<>>, header |-> "", log |-> {}]
         ELSE [raised |-> FALSE, exc |-> "", msg |-> "",
               callsign |-> cs, adi |-> parsed.adi, header |-> parsed.header,
               log |-> b.log]

(***************************************************************************)
(* The outcome of a call, as the caller observes it.                       *)
(***************************************************************************)
Res(op, kind, exc, msg, ret, text, status, contact, size) ==
    [op |-> op, kind |-> kind, exc |-> exc, msg |-> msg, ret |-> ret,
     text |-> text, status |-> status, contact |-> contact, size |-> size]

NoResult == Res("", "", "", "", "", <<>>, 0, NoQSO, 0)

NoClient == [username |-> None, password |-> None]

NoApi == [cls |-> ""]

(***************************************************************************)
(* requests: the status test and Response.raise_for_status().              *)
(***************************************************************************)
codes_ok == 200

\* raise_for_status() raises HTTPError for a 4xx or 5xx status only
raise_for_status(status_code) == 400 <= status_code /\ status_code < 600

(***************************************************************************)
(* lotw.py: the checks on the response body.                               *)
(***************************************************************************)
RetrievalFailureDefault ==
    "Failed to retrieve information. Confirm log-in credentials are correct."

DxccReport == "ARRL Logbook of the World DXCC QSL Card Report"

\* '<eoh>' not in response.text
eoh_absent(body) == ~str_in("<eoh>", body)

\* the report title looked for anywhere in the body
dxcc_report_anywhere(body) == ~str_in(DxccReport, body)

\* 'ARRL Logbook of the World DXCC QSL Card Report' not in response.text[:46]
dxcc_report_absent(body) == ~str_in(DxccReport, str_slice_to(body, 46))

(***************************************************************************)
(* eqsl.py, verify_eqsl: the classification of a 200 response body.        *)
(***************************************************************************)
\* the two tests with the `not` of the second one dropped
verify_outcome_swapped(raw_result) ==
    IF str_in("Result - QSO on file", raw_result)
    THEN [kind |-> "return", exc |-> "", ret |-> "True"]
    ELSE IF str_in("Parameter missing", raw_result)
    THEN [kind |-> "return", exc |-> "", ret |-> "False"]
    ELSE [kind |-> "raise", exc |-> "Exception", ret |-> ""]

\* the final else branch returning instead of raising
verify_outcome_no_raise(raw_result) ==
    IF str_in("Result - QSO on file", raw_result)
    THEN [kind |-> "return", exc |-> "", ret |-> "True"]
    ELSE [kind |-> "return", exc |-> "", ret |-> "False"]

verify_outcome(raw_result) ==
    IF str_in("Result - QSO on file", raw_result)
    THEN [kind |-> "return", exc |-> "", ret |-> "True"]
    ELSE IF ~str_in("Parameter missing", raw_result)
    THEN [kind |-> "return", exc |-> "", ret |-> "False"]
    ELSE [kind |-> "raise", exc |-> "Exception", ret |-> ""]

(***************************************************************************)
(* XML text and xmltodict.parse.  A document is its root element; an       *)
(* element has a name and either character data or child elements.  The    *)
(* parser yields a dict with the root's name as its only key; an element   *)
(* with children becomes a dict of its children, one with character data   *)
(* becomes that string, an empty one becomes None.  Text that is not XML   *)
(* (an element without a name) makes the parser raise.                     *)
(***************************************************************************)
Elem(name, text, kids) == [name |-> name, text |-> text, kids |-> kids]

Leaf(name, text) == Elem(name, text, <<>>)

Node(name, kids) == Elem(name, "", kids)

RECURSIVE xml_value(_)
xml_value(e) ==
    IF e.kids = <<>>
    THEN (IF e.text = "" THEN None ELSE e.text)
    ELSE [n \in {e.kids[i].name : i \in DOMAIN e.kids} |->
            xml_value(e.kids[CHOOSE i \in DOMAIN e.kids : e.kids[i].name = n])]

xmltodict_parse(text) ==
    IF text.name = ""
    THEN [ok |-> FALSE, dict |-> EmptyDict]
    ELSE [ok |-> TRUE, dict |-> [n \in {text.name} |-> xml_value(text)]]

(***************************************************************************)
(* qrz.py, QRZXMLClient: the session and the lookups.                      *)
(***************************************************************************)
MAX_NUM_RETRIES == 1

QRZInvalidSessionDefault == "Got no session key back. This session is invalid."

\* one requests.get: what it asks for and its query parameters
Req(url, params) == [url |-> url, params |-> params]

xml_base_url == "https://xmldata.qrz.com/xml/1.34/"

\* what a helper hands back: a value, or the exception it raised
Ret(v) == [kind |-> "return", exc |-> "", msg |-> "", v |-> v]

Raise(exc, msg) == [kind |-> "raise", exc |-> exc, msg |-> msg, v |-> None]

\* QRZXMLClient.__initiate_session, `response` being what the server answers:
\* the session key, or the exception
initiate_session(response) ==
    LET xml_dict == xmltodict_parse(response.text) IN
    IF ~xml_dict.ok THEN Raise("ExpatError", "")
    ELSE IF "QRZDatabase" \notin DOMAIN xml_dict.dict
    THEN Raise("KeyError", "QRZDatabase")
    ELSE IF "Session" \notin DOMAIN xml_dict.dict["QRZDatabase"]
    THEN Raise("KeyError", "Session")
    ELSE LET key == dict_get(xml_dict.dict["QRZDatabase"]["Session"], "Key") IN
         IF ~truthy(key)
         THEN Raise("QRZInvalidSession", QRZInvalidSessionDefault)
         ELSE Ret(key)

\* the request __initiate_session sends
session_request(self) ==
    Req(xml_base_url, [username |-> self.username, password |-> self.password])

\* the request a lookup sends: params = {'s': self.session_key, field: value}
lookup_request(session_key, field, value) ==
    Req(xml_base_url, dict_set([s |-> session_key], field, value))

\* parameters of def __lookup_callsign(self, callsign, num_retries)
LookupParams == 3

\* arguments written at the call self.__lookup_callsign(self, callsign,
\* num_retries + 1)
RetryArgs == 3

\* a method looked up on the class and called with the arguments as written
unbound_call_args(written) == written

\* a method looked up on self is bound: self comes before the arguments written
bound_call_args(written) == written + 1

\* __lookup_callsign / __lookup_dxcc(self, value, num_retries), `responses`
\* being what the server answers to the requests in the order they are sent.
\* Yields the outcome, the session key the client is left with, the requests
\* sent and the responses received.
RECURSIVE lookup(_, _, _, _, _)
lookup(self, field, value, num_retries, responses) ==
    LET request  == lookup_request(self.session_key, field, value)
        response == Head(responses)
        parsed_response == xmltodict_parse(response.text)
        Out(o, key, reqs, n) ==
            [o |-> o, session_key |-> key, sent |-> reqs,
             got |-> SubSeq(responses, 1, n)]
    IN
    IF ~parsed_response.ok
    THEN Out(Raise("ExpatError", ""), self.session_key, <<request>>, 1)
    ELSE IF ~truthy(dict_get(parsed_response.dict, "Key"))
    THEN IF num_retries < MAX_NUM_RETRIES
         THEN LET s == initiate_session(responses[2])
                  reqs == <<request, session_request(self)>>
              IN  IF s.kind = "raise"
                  THEN Out(s, self.session_key, reqs, 2)
                  ELSE IF bound_call_args(RetryArgs) # LookupParams
                  THEN Out(Raise("TypeError", ""), s.v, reqs, 2)
                  ELSE LET again == lookup([self EXCEPT !.session_key = s.v],
                                           field, value, num_retries + 1,
                                           Tail(Tail(responses)))
                       IN  [again EXCEPT !.sent = reqs \o @,
                                         !.got = SubSeq(responses, 1, 2) \o @]
         ELSE LET error == dict_get(parsed_response.dict, "ERROR") IN
              Out(Raise("QRZInvalidSession",
                        IF truthy(error) THEN error ELSE QRZInvalidSessionDefault),
                  self.session_key, <<request>>, 1)
    ELSE Out(Ret("dict"), self.session_key, <<request>>, 1)

(***************************************************************************)
(* qrz.py, QRZLogbookClient: the body of a response is a query string, a   *)
(* sequence of KEY=VALUE fields joined by "&".  parse_qs maps every key to *)
(* the list of its values, in order, and drops fields with a blank value.  *)
(***************************************************************************)
Pair(key, value) == [key |-> key, value |-> value]

\* a Python list, told apart from a str by its type
PyList(items) == [type |-> "list", items |-> items]

\* the non-blank values the fields give to `key`, in order
RECURSIVE values_of(_, _)
values_of(fields, key) ==
    IF fields = <<>> THEN <<>>
    ELSE LET f == Head(fields) IN
         (IF f.key = key /\ f.value # <<>> THEN <<f.value>> ELSE <<>>)
            \o values_of(Tail(fields), key)

parse_qs(fields) ==
    [k \in {fields[i].key : i \in {j \in DOMAIN fields : fields[j].value # <<>>}} |->
        PyList(values_of(fields, k))]

logbook_base_url == "https://logbook.qrz.com/api"

\* QRZLogbookClient.__stringify(self, adi_log): "<EOH>" + adi_log raises
\* TypeError unless adi_log is a str
stringify(self, adi_log) ==
    IF adi_log.type # "str"
    THEN [raised |-> TRUE, exc |-> "TypeError", msg |-> "",
          callsign |-> self.key, adi |-> <<>>, header |-> "", log |-> {}]
    ELSE Logbook(self.key, <<Txt("<EOH>")>> \o adi_log.val)

\* None where a list is expected: the default of list_logids
PyNone == [type |-> "NoneType", items |-> <<>>]

\* the strings of `items` with `sep` between them
RECURSIVE join_items(_, _)
join_items(sep, items) ==
    IF items = <<>> THEN ""
    ELSE IF Len(items) = 1 THEN Head(items)
    ELSE Head(items) \o sep \o join_items(sep, Tail(items))

\* sep.join(iterable): TypeError when iterable is None
str_join(sep, iterable) ==
    IF iterable.type # "list"
    THEN Raise("TypeError", "can only join an iterable")
    ELSE Ret(join_items(sep, iterable.items))

\* the form data of check_status
status_data(self, logids) ==
    dict_set(dict_set(dict_set(EmptyDict, "KEY", self.key), "ACTION", "STATUS"),
             "LOGIDS", logids)

(***************************************************************************)
(* eqsl.py, eQSLClient.fetch_inbox / fetch_outbox: the link to the ADIF    *)
(* file in the page that answers the first request.                        *)
(***************************************************************************)
\* s.index(p), for p in s
str_index(p, s) ==
    CHOOSE i \in 0..(Len(s) - Len(p)) :
        /\ SubSeq(s, i + 1, i + Len(p)) = p
        /\ \A j \in 0..(i - 1) : SubSeq(s, j + 1, j + Len(p)) # p

\* s[a:b], for 0 <= a and 0 <= b
str_slice(s, a, b) == SubSeq(s, a + 1, Min(b, Len(s)))

eqsl_base_url == "https://www.eqsl.cc/qslcard/"

adif_found_txt == "Your ADIF log file has been built"

LeftAnchor == "<LI><A HREF=\".."

RightAnchor == "\">.ADI file</A>"

\* the link taken from the start of the left anchor
link_start_at_anchor(text) == str_index(LeftAnchor, text)

\* adif_link_start_idx = r.text.index('<LI><A HREF="..') + 15
link_start(text) == str_index(LeftAnchor, text) + 15

\* adif_link_end_idx = r.text.index('">.ADI file</A>')
link_end(text) == str_index(RightAnchor, text)

\* a request of the eQSLClient together with the response it got
Exch(url, params, response) == [url |-> url, params |-> params, response |-> response]

\* the three lines that compute adif_link; index raises ValueError
adif_link(self, text) ==
    IF ~str_in(LeftAnchor, text) \/ ~str_in(RightAnchor, text)
    THEN Raise("ValueError", "substring not found")
    ELSE Ret(self.base_url \o str_slice(text, link_start(text), link_end(text)))

(***************************************************************************)
(* eqsl.py, get_ag_list_dated: the member list, one "CALLSIGN, DATE" line  *)
(* per member below a header line.                                         *)
(***************************************************************************)
\* s.split(sep)
RECURSIVE str_split(_, _)
str_split(s, sep) ==
    IF ~str_in(sep, s) THEN <<s>>
    ELSE LET i == str_index(sep, s) IN
         <<str_slice(s, 0, i)>> \o str_split(str_slice(s, i + Len(sep), Len(s)), sep)

\* result_list[1:], the last element kept
list_from_second(result_list) == SubSeq(result_list, 2, Len(result_list))

\* result_list[1:-1]
list_inner(result_list) == SubSeq(result_list, 2, Len(result_list) - 1)

\* for pair in loc: call, date = pair.split(', '); dict_calls[call] = date
RECURSIVE collect_pairs(_, _)
collect_pairs(loc, dict_calls) ==
    IF loc = <<>> THEN [raised |-> FALSE, dict_calls |-> dict_calls]
    ELSE LET parts == str_split(Head(loc), ", ") IN
         IF Len(parts) # 2
         THEN [raised |-> TRUE, dict_calls |-> dict_calls]
         ELSE collect_pairs(Tail(loc), dict_set(dict_calls, parts[1], parts[2]))

\* the body of get_ag_list_dated for a response with status ok
ag_list_dated(text) ==
    LET result_list == str_split(text, "\r\n")
        loc    == list_inner(result_list)
        first  == result_list[1]
        c      == collect_pairs(loc, EmptyDict)
    IN  IF c.raised
        THEN [o |-> Raise("ValueError", ""), dict_calls |-> EmptyDict, header |-> ""]
        ELSE [o |-> Ret("tuple"), dict_calls |-> c.dict_calls, header |-> first]

(***************************************************************************)
(* Inputs.                                                                 *)
(***************************************************************************)
StatusCodes == {200, 204, 404}

Usernames == {"TE5T", "W1AW"}

VerifyChunks ==
    {"Result - QSO on file", "Error - Result: QSO not on file",
     "Parameter missing", "eQSL.cc "}

RECURSIVE ChunkSeqs(_)
ChunkSeqs(n) ==
    IF n = 0 THEN {<<>>}
    ELSE LET S == ChunkSeqs(n - 1) IN S \cup {<<Txt(c)>> \o s : c \in VerifyChunks, s \in S}

VerifyBodies == ChunkSeqs(MaxChunks)

Callsigns == {"TE5T"}

PeerCalls == {"W1AW", "W1AW/4"}

DxccNames == {"291"}

Eor == <<Txt("<eor>")>>

Five(call) ==
    <<Fld("CALL", call), Fld("BAND", "20m"), Fld("MODE", "SSB"),
      Fld("QSO_DATE", "20220101"), Fld("TIME_ON", "0000")>>

\* a sequence without its k-th element
Without(s, k) == SubSeq(s, 1, k - 1) \o SubSeq(s, k + 1, Len(s))

BaseRecs ==
    { Five("W1AW") \o <<Fld("QSL_RCVD", "Y")>> \o Eor,
      Five("W1AW") \o <<Fld("QSL_RCVD", "N")>> \o Eor }

OtherRec == Five("W1AW/4") \o <<Fld("QSL_RCVD", "N")>> \o Eor

ConfRecs ==
    { Five("W1AW") \o x \o Eor : x \in
        { <<>>,
          <<Fld("APP_QRZLOG_QSLDATE", "20240102")>>,
          <<Fld("APP_QRZLOG_QSLDATE", "")>>,
          <<Fld("EQSL_QSL_RCVD", "Y")>>,
          <<Fld("EQSL_QSL_RCVD", "N")>>,
          <<Fld("eqsl_qsl_rcvd", "Y")>>,
          <<Fld("QSL_RCVD", "N"), Fld("APP_QRZLOG_QSLDATE", "20240102")>> } }
    \cup { <<Fld("call", "W1AW")>> \o Tail(Five("W1AW")) \o Eor }

MissRecs ==
    { Without(Five("W1AW"), k) \o Eor : k \in 1..5 }
    \cup { Without(Without(Five("W1AW"), 5), 2) \o Eor }

RECURSIVE RecSeqs(_)
RecSeqs(n) ==
    IF n = 0 THEN {<<>>}
    ELSE LET S == RecSeqs(n - 1) IN S \cup {r \o s : r \in BaseRecs, s \in S}

Hdr == <<Txt("a header"), Txt("<eoh>")>>

Docs ==
    { Hdr \o s : s \in RecSeqs(MaxRecs) }
    \cup { Hdr \o b \o OtherRec : b \in BaseRecs }
    \cup { Hdr \o r : r \in ConfRecs \cup MissRecs }
    \cup { Hdr \o b \o m : b \in BaseRecs, m \in MissRecs }
    \cup { h \o b : h \in {<<Txt("a header")>>, <<Txt("a header"), Txt("<EOH>")>>},
                    b \in BaseRecs }

LotwBodies ==
    { h \o e \o r :
        h \in {<<Txt("a header")>>, <<Txt(DxccReport)>>,
               <<Txt("Error: "), Txt(DxccReport)>>},
        e \in {<<>>, <<Txt("<eoh>")>>, <<Txt("<EOH>")>>},
        r \in {<<>>, Five("W1AW") \o <<Fld("QSL_RCVD", "Y")>> \o Eor,
               Without(Five("W1AW"), 1) \o Eor} }

Responses(bodies) == [status_code : StatusCodes, text : bodies]

SessionKeys == {"key1", "key2"}

XmlSessions ==
    { <<Leaf("Key", k)>> : k \in SessionKeys }
    \cup { <<Leaf("ERROR", "Username/password incorrect")>>,
           <<Leaf("GMTime", "Sun Nov 1 2026")>> }

XmlCallsign == Node("Callsign", <<Leaf("call", "W1AW")>>)

XmlDocs ==
    { Node("QRZDatabase", <<XmlCallsign, Node("Session", x)>>) : x \in XmlSessions }
    \cup { Node("QRZDatabase", <<XmlCallsign>>),
           Leaf("Key", "key1"),
           Leaf("ERROR", "Session Timeout") }

XmlResponses == [status_code : {codes_ok}, text : XmlDocs]

ApiKeys == {"ABCD-0A0B-1C1D-2E2F"}

QrzLogBodies ==
    { <<Pair("RESULT", <<Txt("FAIL")>>), Pair("REASON", <<Txt("invalid api key")>>)>>,
      <<Pair("RESULT", <<Txt("OK")>>), Pair("COUNT", <<Txt("0")>>), Pair("ADIF", <<>>)>>,
      <<Pair("RESULT", <<Txt("OK")>>), Pair("COUNT", <<Txt("1")>>),
        Pair("ADIF", Five("W1AW") \o <<Fld("APP_QRZLOG_QSLDATE", "20240102")>> \o Eor)>>,
      <<Pair("ADIF", Five("W1AW") \o Eor \o OtherRec), Pair("RESULT", <<Txt("OK")>>)>> }

LogidLists ==
    {PyNone, PyList(<<>>), PyList(<<"12345">>), PyList(<<"12345", "67890">>)}

QrzStatusBodies ==
    { <<Pair("RESULT", <<Txt("FAIL")>>), Pair("REASON", <<Txt("invalid api key")>>)>>,
      <<Pair("RESULT", <<Txt("OK")>>), Pair("DXCC_COUNT", <<Txt("3")>>),
        Pair("CONFIRMED", <<Txt("1")>>), Pair("CALLSIGN", <<Txt("TE5T")>>)>> }

LinkPaths == {"/downloadedfiles/TE5T.adi", "/downloadedfiles/X1.adi"}

Link(path) == <<Txt(LeftAnchor), Txt(path), Txt(RightAnchor)>>

TriggerBodies ==
    { <<Txt("<HTML>"), Txt(adif_found_txt)>> \o Link(path) : path \in LinkPaths }
    \cup { <<Txt("<HTML>"), Txt(adif_found_txt)>>
                \o Link("/downloadedfiles/TE5T.adi") \o Link("/downloadedfiles/X1.adi"),
           Link("/downloadedfiles/TE5T.adi") \o <<Txt(adif_found_txt)>>,
           Link("/downloadedfiles/TE5T.adi"),
           <<Txt("<HTML>"), Txt(adif_found_txt)>>,
           <<Txt(adif_found_txt), Txt(RightAnchor), Txt(LeftAnchor),
             Txt("/downloadedfiles/TE5T.adi")>>,
           <<Txt("Error: No such Username/Password found")>> }

EqslAdifBodies ==
    { Hdr \o Five("W1AW") \o <<Fld("QSL_RCVD", "Y")>> \o Eor,
      Hdr,
      <<Txt("Error: file not found")>> }

Crlf == Txt("\r\n")

AgMembers ==
    { [call |-> "W1AW", date |-> "2024-01-01"],
      [call |-> "TE5T", date |-> "2023-12-31"],
      [call |-> "W1AW", date |-> "2024-02-02"] }

\* one line of the list, with its line end
AgLine(m) == <<Txt(m.call \o ", " \o m.date), Crlf>>

RECURSIVE AgLineSeqs(_)
AgLineSeqs(n) ==
    IF n = 0 THEN {<<>>}
    ELSE LET S == AgLineSeqs(n - 1) IN S \cup {AgLine(m) \o s : m \in AgMembers, s \in S}

AgHeader == <<Txt("header"), Crlf>>

AgBodies ==
    { AgHeader \o ls \o t : ls \in AgLineSeqs(MaxLines), t \in {<<>>, <<Crlf>>} }
    \cup { <<Txt("header")>>,
           AgHeader \o <<Txt("K1ABC"), Crlf>> }

\* the answers to one lookup, its re-established session and its retry
XmlResponseSeqs == [1..(1 + 2 * MAX_NUM_RETRIES) -> XmlResponses]


(***************************************************************************)
(* The state after start-up: no Logbook, no client, no call made.          *)
(***************************************************************************)
Init ==
    /\ built = FALSE
    /\ callsign = None
    /\ adi = <<>>
    /\ header = ""
    /\ log = {}
    /\ objs = {}
    /\ client = NoClient
    /\ result = NoResult
    /\ api = NoApi
    /\ sent = <<>>

\* The calls of one run: the functions of eqsl.py share no state with the
\* Logbook, so a run either calls them or builds and edits a Logbook; a run that uses
\* a client of qrz.py or the eQSLClient gets its Logbook from that client.
LogbookRun ==
    /\ result.op \notin {"verify_eqsl", "get_ag_list_dated"}
    /\ api = NoApi
    /\ sent = <<>>

\* QSO(their_call, band, mode, qso_date, time_on) called by the user
NewQSO(their_call, qsl_rcvd) ==
    /\ Cardinality(objs) < MaxQsos
    /\ LogbookRun
    /\ client = NoClient \/ built
    /\ objs' = objs \cup
          {QSO(<<"new", Cardinality(objs) + 1>>, their_call, "20m", "SSB",
               "20220101", "0000", qsl_rcvd)}
    /\ UNCHANGED <<lbvars, client, result, api, sent>>

\* log = Logbook(callsign, unparsed_log)
Logbook_init(cs, unparsed_log) ==
    /\ ~built
    /\ LogbookRun
    /\ client = NoClient
    /\ LET lb == Logbook(cs, unparsed_log) IN
       IF lb.raised
       THEN /\ result' = Res("Logbook", "raise", lb.exc, lb.msg, "",
                             unparsed_log, 0, NoQSO, 0)
            /\ UNCHANGED lbvars
       ELSE /\ built' = TRUE
            /\ callsign' = lb.callsign
            /\ adi' = lb.adi
            /\ header' = lb.header
            /\ log' = lb.log
            /\ result' = Res("Logbook", "return", "", "", "Logbook",
                             unparsed_log, 0, NoQSO, 0)
    /\ UNCHANGED <<objs, client, api, sent>>

\* the QSO objects the caller can pass: its own and those it finds in log
Contacts == objs \cup log

\* write_qso with a copy-and-paste of the raw-record bookkeeping
write_qso_adi(contact) ==
    /\ built
    /\ log' = set_add(log, contact)
    /\ adi' = Append(adi, EmptyDict)
    /\ result' = Res("write_qso", "return", "", "", "None", <<>>, 0, contact,
                     Cardinality(log))
    /\ UNCHANGED <<built, callsign, header, objs, client, api, sent>>

\* Logbook.write_qso(contact)
write_qso(contact) ==
    /\ built
    /\ log' = set_add(log, contact)
    /\ result' = Res("write_qso", "return", "", "", "None", <<>>, 0, contact,
                     Cardinality(log))
    /\ UNCHANGED <<built, callsign, adi, header, objs, client, api, sent>>

\* discard_qso calling self.log.add
discard_qso_add(contact) ==
    /\ built
    /\ log' = set_add(log, contact)
    /\ result' = Res("discard_qso", "return", "", "", "None", <<>>, 0, NoQSO, 0)
    /\ UNCHANGED <<built, callsign, adi, header, objs, client, api, sent>>

\* Logbook.discard_qso(contact)
discard_qso(contact) ==
    /\ built
    /\ log' = set_discard(log, contact)
    /\ result' = Res("discard_qso", "return", "", "", "None", <<>>, 0, NoQSO, 0)
    /\ UNCHANGED <<built, callsign, adi, header, objs, client, api, sent>>

\* what set.discard does when handed a raw record of adi instead of a QSO:
\* the record is no element of the set, and a record that cannot be hashed
\* makes the call raise TypeError; adif_io decides which
RawDiscardOutcomes == {"return", "raise"}

\* discard_qso taking the raw record for the QSO that was built from it
discard_qso_record_matching(i, outcome) ==
    /\ built
    /\ i \in DOMAIN adi
    /\ log' = {y \in log : y.id # <<"rec", i>>}
    /\ result' = dict_set(Res("discard_qso", "return", "", "", "None", <<>>, 0,
                              NoQSO, 0),
                          "record", adi[i])
    /\ UNCHANGED <<built, callsign, adi, header, objs, client, api, sent>>

\* Logbook.discard_qso(log.adi[i]); the record passed is kept in result.record
discard_qso_record(i, outcome) ==
    /\ built
    /\ i \in DOMAIN adi
    /\ outcome \in RawDiscardOutcomes
    /\ log' = log
    /\ result' = dict_set(IF outcome = "raise"
                          THEN Res("discard_qso", "raise", "TypeError", "", "",
                                   <<>>, 0, NoQSO, 0)
                          ELSE Res("discard_qso", "return", "", "", "None",
                                   <<>>, 0, NoQSO, 0),
                          "record", adi[i])
    /\ UNCHANGED <<built, callsign, adi, header, objs, client, api, sent>>

\* LOTWClient(username, password)
LOTWClient_init(username, password) ==
    /\ client = NoClient
    /\ ~built
    /\ objs = {}
    /\ result = NoResult
    /\ client' = [username |-> username, password |-> password]
    /\ UNCHANGED <<lbvars, objs, result, api, sent>>

\* return Logbook(self.username, response.text), as the call `op` sees it
ReturnLogbook(op, response) ==
    LET lb == Logbook(client.username, response.text) IN
    IF lb.raised
    THEN /\ result' = Res(op, "raise", lb.exc, lb.msg, "", response.text,
                          response.status_code, NoQSO, 0)
         /\ UNCHANGED lbvars
    ELSE /\ built' = TRUE
         /\ callsign' = lb.callsign
         /\ adi' = lb.adi
         /\ header' = lb.header
         /\ log' = lb.log
         /\ result' = Res(op, "return", "", "", "Logbook", response.text,
                          response.status_code, NoQSO, 0)

\* the else branch: response.raise_for_status(), then the implicit return None
ReturnOrRaiseForStatus(op, response) ==
    /\ IF raise_for_status(response.status_code)
       THEN result' = Res(op, "raise", "HTTPError", "", "", response.text,
                          response.status_code, NoQSO, 0)
       ELSE result' = Res(op, "return", "", "", "None", response.text,
                          response.status_code, NoQSO, 0)
    /\ UNCHANGED lbvars

\* LOTWClient.fetch_logbook(), `response` being what the server answers
fetch_logbook(response) ==
    /\ client # NoClient
    /\ ~built
    /\ IF eoh_absent(Render(response.text))
       THEN /\ result' = Res("fetch_logbook", "raise", "RetrievalFailure",
                             RetrievalFailureDefault, "", response.text,
                             response.status_code, NoQSO, 0)
            /\ UNCHANGED lbvars
       ELSE IF response.status_code = codes_ok
       THEN ReturnLogbook("fetch_logbook", response)
       ELSE ReturnOrRaiseForStatus("fetch_logbook", response)
    /\ UNCHANGED <<objs, client, api, sent>>

\* LOTWClient.get_dxcc_credit(), `response` being what the server answers
get_dxcc_credit(response) ==
    /\ client # NoClient
    /\ ~built
    /\ IF response.status_code = codes_ok
       THEN IF dxcc_report_absent(Render(response.text))
            THEN /\ result' = Res("get_dxcc_credit", "raise", "RetrievalFailure",
                                  Render(response.text), "", response.text,
                                  response.status_code, NoQSO, 0)
                 /\ UNCHANGED lbvars
            ELSE ReturnLogbook("get_dxcc_credit", response)
       ELSE ReturnOrRaiseForStatus("get_dxcc_credit", response)
    /\ UNCHANGED <<objs, client, api, sent>>

\* eqsl.verify_eqsl(...), `response` being what the server answers
verify_eqsl(response) ==
    /\ client = NoClient
    /\ ~built
    /\ objs = {}
    /\ api = NoApi
    /\ sent = <<>>
    /\ result = NoResult
    /\ IF response.status_code = codes_ok
       THEN LET raw_result == Render(response.text)
                o == verify_outcome(raw_result)
            IN  result' = Res("verify_eqsl", o.kind, o.exc, raw_result, o.ret,
                              response.text, response.status_code, NoQSO, 0)
       ELSE IF raise_for_status(response.status_code)
       THEN result' = Res("verify_eqsl", "raise", "HTTPError", "", "",
                          response.text, response.status_code, NoQSO, 0)
       ELSE result' = Res("verify_eqsl", "return", "", "", "None",
                          response.text, response.status_code, NoQSO, 0)
    /\ UNCHANGED <<lbvars, objs, client, api, sent>>

\* the bodies of the responses a call has received
Texts(responses) == [i \in DOMAIN responses |-> responses[i].text]

\* QRZXMLClient(username, password), `response` being what the server answers
\* to the session request of the constructor
QRZXMLClient_init(username, password, response) ==
    /\ api = NoApi
    /\ client = NoClient
    /\ ~built
    /\ objs = {}
    /\ result = NoResult
    /\ LET self == [cls |-> "QRZXMLClient", username |-> <<username>>,
                    password |-> <<password>>, session_key |-> None]
           s == initiate_session(response)
       IN  /\ sent' = <<session_request(self)>>
           /\ IF s.kind = "raise"
              THEN /\ api' = api
                   /\ result' = Res("QRZXMLClient", "raise", s.exc, s.msg, "",
                                    <<response.text>>, response.status_code,
                                    NoQSO, 0)
              ELSE /\ api' = [self EXCEPT !.session_key = s.v]
                   /\ result' = Res("QRZXMLClient", "return", "", "",
                                    "QRZXMLClient", <<response.text>>,
                                    response.status_code, NoQSO, 0)
    /\ UNCHANGED <<lbvars, objs, client>>

\* a lookup whose new session key never reaches self.session_key
Lookup_key_not_stored(op, field, value, responses) ==
    /\ api.cls = "QRZXMLClient"
    /\ LET r == lookup(api, field, value, 0, responses) IN
       /\ api' = api
       /\ sent' = r.sent
       /\ result' = Res(op, r.o.kind, r.o.exc, r.o.msg,
                        IF r.o.kind = "return" THEN r.o.v ELSE "",
                        Texts(r.got), Head(responses).status_code, NoQSO, 0)
    /\ UNCHANGED <<lbvars, objs, client>>

\* a lookup of QRZXMLClient as its caller sees it
Lookup(op, field, value, responses) ==
    /\ api.cls = "QRZXMLClient"
    /\ LET r == lookup(api, field, value, 0, responses) IN
       /\ api' = [api EXCEPT !.session_key = r.session_key]
       /\ sent' = r.sent
       /\ result' = Res(op, r.o.kind, r.o.exc, r.o.msg,
                        IF r.o.kind = "return" THEN r.o.v ELSE "",
                        Texts(r.got), Head(responses).status_code, NoQSO, 0)
    /\ UNCHANGED <<lbvars, objs, client>>

\* QRZXMLClient.lookup_callsign(callsign)
lookup_callsign(cs, responses) == Lookup("lookup_callsign", "callsign", cs, responses)

\* QRZXMLClient.lookup_dxcc(dxcc)
lookup_dxcc(dxcc, responses) == Lookup("lookup_dxcc", "dxcc", dxcc, responses)

\* QRZLogbookClient(key)
QRZLogbookClient_init(key) ==
    /\ api = NoApi
    /\ client = NoClient
    /\ ~built
    /\ objs = {}
    /\ result = NoResult
    /\ api' = [cls |-> "QRZLogbookClient", key |-> key]
    /\ result' = Res("QRZLogbookClient", "return", "", "", "QRZLogbookClient",
                     <<>>, 0, NoQSO, 0)
    /\ UNCHANGED <<lbvars, objs, client, sent>>

\* what `op` of the client `api` does with the Logbook constructor's outcome
ReturnApiLogbook(op, lb, response) ==
    IF lb.raised
    THEN /\ result' = Res(op, "raise", lb.exc, lb.msg, "", response.text,
                          response.status_code, NoQSO, 0)
         /\ UNCHANGED lbvars
    ELSE /\ built' = TRUE
         /\ callsign' = lb.callsign
         /\ adi' = lb.adi
         /\ header' = lb.header
         /\ log' = lb.log
         /\ result' = Res(op, "return", "", "", "Logbook", response.text,
                          response.status_code, NoQSO, 0)

\* QRZLogbookClient.fetch_logbook(), `response` being what the server answers
QRZLogbookClient_fetch_logbook(response) ==
    /\ api.cls = "QRZLogbookClient"
    /\ ~built
    /\ sent' = <<Req(logbook_base_url,
                      dict_set(dict_set(EmptyDict, "KEY", api.key), "ACTION", "FETCH"))>>
    /\ IF response.status_code = codes_ok
       THEN LET response_dict == parse_qs(response.text) IN
            IF "ADIF" \notin DOMAIN response_dict
            THEN /\ result' = Res("QRZLogbookClient.fetch_logbook", "raise",
                                  "KeyError", "ADIF", "", response.text,
                                  response.status_code, NoQSO, 0)
                 /\ UNCHANGED lbvars
            ELSE ReturnApiLogbook("QRZLogbookClient.fetch_logbook",
                                  stringify(api, response_dict["ADIF"]), response)
       ELSE ReturnOrRaiseForStatus("QRZLogbookClient.fetch_logbook", response)
    /\ UNCHANGED <<objs, client, api>>

\* QRZLogbookClient.check_status(list_logids), `response` being what the server
\* answers when the request is sent
check_status(list_logids, response) ==
    /\ api.cls = "QRZLogbookClient"
    /\ ~built
    /\ LET logids == str_join(",", list_logids)
           Out(kind, exc, msg, ret, text, status) ==
               dict_set(Res("check_status", kind, exc, msg, ret, text, status,
                            NoQSO, 0),
                        "list_logids", list_logids)
       IN  IF logids.kind = "raise"
           THEN /\ sent' = <<>>
                /\ result' = Out("raise", logids.exc, logids.msg, "", <<>>, 0)
           ELSE /\ sent' = <<Req(logbook_base_url, status_data(api, logids.v))>>
                /\ IF response.status_code = codes_ok
                   THEN result' = dict_set(Out("return", "", "", "dict",
                                               response.text, response.status_code),
                                           "value", parse_qs(response.text))
                   ELSE IF raise_for_status(response.status_code)
                   THEN result' = Out("raise", "HTTPError", "", "",
                                      response.text, response.status_code)
                   ELSE result' = Out("return", "", "", "None",
                                      response.text, response.status_code)
    /\ UNCHANGED <<lbvars, objs, client, api>>

\* eQSLClient(username, password)
eQSLClient_init(username, password) ==
    /\ api = NoApi
    /\ client = NoClient
    /\ ~built
    /\ objs = {}
    /\ result = NoResult
    /\ api' = [cls |-> "eQSLClient", callsign |-> <<username>>,
               base_url |-> eqsl_base_url,
               params |-> [username |-> username, password |-> password]]
    /\ result' = Res("eQSLClient", "return", "", "", "eQSLClient", <<>>, 0,
                     NoQSO, 0)
    /\ UNCHANGED <<lbvars, objs, client, sent>>

\* the body shared by fetch_inbox and fetch_outbox: `r` answers the request
\* for `page`, `adif_response` the request for the link found in r.
\* Each request is kept in `sent` with the response it got.
Fetch(op, page, r, adif_response) ==
    LET first == Exch(api.base_url \o page, api.params, r)
        text  == Render(r.text)
        One(kind, exc, msg, ret) ==
            /\ sent' = <<first>>
            /\ result' = Res(op, kind, exc, msg, ret, r.text, r.status_code,
                             NoQSO, 0)
            /\ UNCHANGED lbvars
    IN
    /\ api.cls = "eQSLClient"
    /\ ~built
    /\ IF r.status_code = codes_ok
       THEN IF ~str_in(adif_found_txt, text)
            THEN One("raise", "Exception", "Failed to generate ADIF.", "")
            ELSE LET link == adif_link(api, text) IN
                 IF link.kind = "raise"
                 THEN One("raise", link.exc, link.msg, "")
                 ELSE /\ sent' = <<first, Exch(link.v, EmptyDict, adif_response)>>
                      /\ IF adif_response.status_code = codes_ok
                         THEN ReturnApiLogbook(op,
                                  Logbook(api.callsign, adif_response.text),
                                  adif_response)
                         ELSE \* r.raise_for_status(), r being the first response
                              /\ IF raise_for_status(r.status_code)
                                 THEN result' = Res(op, "raise", "HTTPError", "", "",
                                                    adif_response.text,
                                                    adif_response.status_code,
                                                    NoQSO, 0)
                                 ELSE result' = Res(op, "return", "", "", "None",
                                                    adif_response.text,
                                                    adif_response.status_code,
                                                    NoQSO, 0)
                              /\ UNCHANGED lbvars
       ELSE IF raise_for_status(r.status_code)
       THEN One("raise", "HTTPError", "", "")
       ELSE One("return", "", "", "None")
    /\ UNCHANGED <<objs, client, api>>

\* eQSLClient.fetch_inbox()
fetch_inbox(r, adif_response) == Fetch("fetch_inbox", "DownloadInBox.cfm", r, adif_response)

\* eQSLClient.fetch_outbox()
fetch_outbox(r, adif_response) == Fetch("fetch_outbox", "DownloadADIF.cfm", r, adif_response)

\* eqsl.get_ag_list_dated(), `response` being what the server answers; the
\* tuple it returns is kept in result.value
get_ag_list_dated(response) ==
    /\ client = NoClient
    /\ ~built
    /\ objs = {}
    /\ api = NoApi
    /\ sent = <<>>
    /\ result = NoResult
    /\ IF response.status_code = codes_ok
       THEN LET r == ag_list_dated(Render(response.text)) IN
            result' = dict_set(Res("get_ag_list_dated", r.o.kind, r.o.exc, r.o.msg,
                                   IF r.o.kind = "return" THEN r.o.v ELSE "",
                                   response.text, response.status_code, NoQSO, 0),
                               "value",
                               [dict_calls |-> r.dict_calls, header |-> r.header])
       ELSE IF raise_for_status(response.status_code)
       THEN result' = Res("get_ag_list_dated", "raise", "HTTPError", "", "",
                          response.text, response.status_code, NoQSO, 0)
       ELSE result' = Res("get_ag_list_dated", "return", "", "", "None",
                          response.text, response.status_code, NoQSO, 0)
    /\ UNCHANGED <<lbvars, objs, client, api, sent>>

Next ==
    \/ \E c \in PeerCalls : NewQSO(c, "N")
    \/ \E cs \in Callsigns, d \in Docs : Logbook_init(cs, d)
    \/ \E q \in Contacts : write_qso(q)
    \/ \E q \in Contacts : discard_qso(q)
    \/ \E i \in 1..MaxRecs, o \in RawDiscardOutcomes : discard_qso_record(i, o)
    \/ \E u \in Usernames : LOTWClient_init(u, "password")
    \/ \E r \in Responses(LotwBodies) : fetch_logbook(r)
    \/ \E r \in Responses(LotwBodies) : get_dxcc_credit(r)
    \/ \E r \in Responses(VerifyBodies) : verify_eqsl(r)
    \/ \E r \in Responses(AgBodies) : get_ag_list_dated(r)
    \/ \E r \in XmlResponses : QRZXMLClient_init("TE5T", "password", r)
    \/ \E rs \in XmlResponseSeqs : lookup_callsign("W1AW", rs)
    \/ \E d \in DxccNames, rs \in XmlResponseSeqs : lookup_dxcc(d, rs)
    \/ \E k \in ApiKeys : QRZLogbookClient_init(k)
    \/ \E r \in Responses(QrzLogBodies) : QRZLogbookClient_fetch_logbook(r)
    \/ \E l \in LogidLists, r \in Responses(QrzStatusBodies) : check_status(l, r)
    \/ eQSLClient_init("TE5T", "password")
    \/ \E r \in Responses(TriggerBodies), a \in Responses(EqslAdifBodies) :
            fetch_inbox(r, a)
    \/ \E r \in Responses(TriggerBodies), a \in Responses(EqslAdifBodies) :
            fetch_outbox(r, a)

Spec == Init /\ [][Next]_vars

(***************************************************************************)
(* Vocabulary of the properties.                                           *)
(***************************************************************************)
\* the five identifying fields agree
SameFive(a, b) ==
    /\ a.their_call = b.their_call
    /\ a.band = b.band
    /\ a.mode = b.mode
    /\ a.qso_date = b.qso_date
    /\ a.time_on = b.time_on

\* two raw records agree on the five identifying fields
SameFiveRec(r, s) == \A i \in 1..Len(Required) :
    dict_get(r, Required[i]) = dict_get(s, Required[i])

\* the last call returned a Logbook (by construction or by a fetch)
JustBuilt == result.kind = "return" /\ result.ret = "Logbook"

\* the last call was a 200 response handed to `op`
Answered(op) == result.op = op /\ result.status = codes_ok

\* the rendered body of the last response
LastBody == Render(result.text)

\* the records the parser finds in the last input text
LastRecords == read_from_string(result.text).adi

Complete(r) == \A i \in 1..Len(Required) : Required[i] \in DOMAIN r

\* C1: two QSO values compare equal if and only if their callsign, band,
\* mode, date and time agree (the confirmation flag does not count).
C1_EqualIffSameFive ==
    \A a \in objs \cup log : \A b \in objs \cup log :
        QSO_eq(a, b) <=> SameFive(a, b)

\* C2: a Logbook constructed from an input holding two records with the same
\* five identifying fields has fewer QSOs in log than records in adi.
C2_ConstructionDeduplicates ==
    (JustBuilt /\ \E i \in DOMAIN adi : \E j \in DOMAIN adi :
                    i < j /\ SameFiveRec(adi[i], adi[j]))
    => Cardinality(log) < Len(adi)

C5_WriteThenDiscardRestoresSize ==
    [][\A q \in Contacts :
        ( /\ result.op = "write_qso"
          /\ Cardinality(log) = result.size + 1
          /\ \A y \in log : SameFive(y, result.contact) => QSO_eq(y, result.contact)
          /\ SameFive(q, result.contact)
          /\ discard_qso(q) )
        => Cardinality(log') = result.size]_vars

\* the confirmation flag the rule of the data model gives a raw record
RuleFlag(r) ==
    IF \/ dict_get(r, "QSL_RCVD") = "Y"
       \/ truthy(dict_get(r, "APP_QRZLOG_QSLDATE"))
       \/ dict_get(r, "EQSL_QSL_RCVD") = "Y"
    THEN "Y" ELSE "N"

\* C6: the QSO built for a raw record has flag Y if and only if QSL_RCVD is
\* Y, or APP_QRZLOG_QSLDATE is present and not empty, or EQSL_QSL_RCVD is Y.
C6_ConfirmationRule ==
    JustBuilt => \A i \in DOMAIN adi : \A q \in log :
        q.id = <<"rec", i>> => q.qsl_rcvd = RuleFlag(adi[i])

\* the first required field the first incomplete record lacks
FirstMissing(recs) ==
    LET i == CHOOSE i \in DOMAIN recs :
                ~Complete(recs[i]) /\ \A j \in 1..(i - 1) : Complete(recs[j])
        k == CHOOSE k \in 1..Len(Required) :
                /\ Required[k] \notin DOMAIN recs[i]
                /\ \A m \in 1..(k - 1) : Required[m] \in DOMAIN recs[i]
    IN  Required[k]

\* C7: constructing a Logbook from an input with a record that lacks one of
\* CALL, BAND, MODE, QSO_DATE, TIME_ON fails with an error naming the missing
\* field, and no Logbook comes out of such an input.
C7_MissingFieldFails ==
    /\ (result.op = "Logbook" /\ \E i \in DOMAIN LastRecords : ~Complete(LastRecords[i]))
        => /\ result.kind = "raise"
           /\ result.exc = "KeyError"
           /\ result.msg = FirstMissing(LastRecords)
           /\ ~built
    /\ JustBuilt => \A i \in DOMAIN LastRecords : Complete(LastRecords[i])

\* C7 witness: the second record of the input lacks TIME_ON and the
\* constructor has raised.
C7_Witness ==
    /\ result.op = "Logbook"
    /\ result.kind = "raise"
    /\ result.msg = "TIME_ON"
    /\ Len(LastRecords) = 2
    /\ Complete(LastRecords[1])

\* the end-of-header marker in any letter case
EohAnyCase ==
    {"<" \o e \o o \o h \o ">" : e \in {"e", "E"}, o \in {"o", "O"}, h \in {"h", "H"}}

MarkerPresent(body) == \E m \in EohAnyCase : str_in(m, body)

\* C8: fetch_logbook on a successful response raises RetrievalFailure exactly
\* when the body holds no end-of-header marker in any letter case; with the
\* marker present (and complete records) it returns a Logbook owned by the
\* client's username.
C8_FetchLogbookMarker ==
    Answered("fetch_logbook") =>
        /\ (result.exc = "RetrievalFailure") <=> ~MarkerPresent(LastBody)
        /\ (MarkerPresent(LastBody) /\ \A i \in DOMAIN LastRecords : Complete(LastRecords[i]))
            => (JustBuilt /\ callsign = client.username)

\* the body begins with the title of the DXCC report
BeginsWithReport(body) ==
    Len(body) >= Len(DxccReport) /\ SubSeq(body, 1, Len(DxccReport)) = DxccReport

\* C9: get_dxcc_credit on a successful response returns a Logbook if and only
\* if the body begins with the report title; any other body raises
\* RetrievalFailure carrying the whole body, marker or no marker.
C9_DxccPrefixDecides ==
    Answered("get_dxcc_credit") =>
        /\ ~BeginsWithReport(LastBody)
            => /\ result.kind = "raise"
               /\ result.exc = "RetrievalFailure"
               /\ result.msg = LastBody
               /\ ~built
        /\ BeginsWithReport(LastBody)
            => /\ result.exc # "RetrievalFailure"
               /\ ~Logbook(client.username, result.text).raised
                    => (JustBuilt /\ callsign = client.username)

\* C9 witness: a body with an end-of-header marker but without the title at
\* its start has been refused.
C9_Witness ==
    /\ Answered("get_dxcc_credit")
    /\ result.exc = "RetrievalFailure"
    /\ str_in("<eoh>", LastBody)
    /\ str_in(DxccReport, LastBody)

\* C9 witness of the other side: a report has come back as a Logbook.
C9_WitnessLogbook ==
    Answered("get_dxcc_credit") /\ JustBuilt /\ Len(adi) = 1

OnFile == "Result - QSO on file"

NotOnFile == "Error - Result: QSO not on file"

ParameterMissing == "Parameter missing"

\* the body holds marker m and neither of the other two answers
Only(m, body) ==
    /\ str_in(m, body)
    /\ \A o \in {OnFile, NotOnFile, ParameterMissing} \ {m} : ~str_in(o, body)

\* C10: verify_eqsl on a successful response: "Result - QSO on file" gives
\* (True, body), "Error - Result: QSO not on file" gives (False, body), and
\* "Parameter missing" raises an exception carrying the body.
C10_VerifyOutcomes ==
    Answered("verify_eqsl") =>
        /\ Only(OnFile, LastBody)
            => (result.kind = "return" /\ result.ret = "True" /\ result.msg = LastBody)
        /\ Only(NotOnFile, LastBody)
            => (result.kind = "return" /\ result.ret = "False" /\ result.msg = LastBody)
        /\ Only(ParameterMissing, LastBody)
            => (result.kind = "raise" /\ result.exc = "Exception" /\ result.msg = LastBody)

\* C10 witness: the "Parameter missing" answer has raised.
C10_Witness ==
    /\ Answered("verify_eqsl")
    /\ Only(ParameterMissing, LastBody)
    /\ result.kind = "raise"

\* C11 (as stated): verify_eqsl on a successful response whose body lacks
\* "Result - QSO on file" returns (False, body) when the body contains
\* "Parameter missing", and raises an error carrying the body otherwise.
C11_ParameterMissingReturnsFalse ==
    (Answered("verify_eqsl") /\ ~str_in(OnFile, LastBody)) =>
        IF str_in(ParameterMissing, LastBody)
        THEN result.kind = "return" /\ result.ret = "False" /\ result.msg = LastBody
        ELSE result.kind = "raise" /\ result.msg = LastBody

\* C11 (amended): verify_eqsl on a successful response whose body lacks
\* "Result - QSO on file" raises an Exception carrying the body when the body
\* contains "Parameter missing", and returns (False, body) for every other
\* such body.
C11_ParameterMissingRaises ==
    (Answered("verify_eqsl") /\ ~str_in(OnFile, LastBody)) =>
        IF str_in(ParameterMissing, LastBody)
        THEN result.kind = "raise" /\ result.exc = "Exception" /\ result.msg = LastBody
        ELSE result.kind = "return" /\ result.ret = "False" /\ result.msg = LastBody

\* C11 witness: a body with none of the known answers has come back as
\* (False, body).
C11_Witness ==
    /\ Answered("verify_eqsl")
    /\ LastBody # ""
    /\ \A m \in {OnFile, NotOnFile, ParameterMissing} : ~str_in(m, LastBody)
    /\ result.kind = "return"
    /\ result.ret = "False"

\* the last call was a lookup of the QRZXMLClient
IsLookup == result.op \in {"lookup_callsign", "lookup_dxcc"}

\* a request for a session (it carries the credentials)
IsSessionRequest(r) == "username" \in DOMAIN r.params

\* a lookup request (it carries the session key)
IsLookupRequest(r) == "s" \in DOMAIN r.params

\* two lookup requests ask for the same thing
SameLookup(r, q) ==
    /\ DOMAIN r.params = DOMAIN q.params
    /\ \A k \in DOMAIN r.params \ {"s"} : r.params[k] = q.params[k]

\* the parsed response has no top-level Key
LacksKey(doc) ==
    LET p == xmltodict_parse(doc) IN p.ok /\ ~truthy(dict_get(p.dict, "Key"))

\* the document has a Session envelope
HasSession(doc) ==
    LET p == xmltodict_parse(doc) IN
    /\ p.ok
    /\ "QRZDatabase" \in DOMAIN p.dict
    /\ "Session" \in DOMAIN p.dict["QRZDatabase"]

SessionOf(doc) == xmltodict_parse(doc).dict["QRZDatabase"]["Session"]

\* the Session envelope grants a key
GrantsKey(doc) == HasSession(doc) /\ truthy(dict_get(SessionOf(doc), "Key"))

\* C12: a lookup whose first response lacks Key re-establishes the session
\* once and, the session granted, sends the same lookup once more; if the
\* second lookup response lacks Key too the call raises QRZInvalidSession;
\* there is no third lookup.
C12_RetryOnceThenFail ==
    (IsLookup /\ LacksKey(result.text[1])) =>
        /\ Len(sent) >= 2
        /\ IsLookupRequest(sent[1])
        /\ IsSessionRequest(sent[2])
        /\ GrantsKey(result.text[2]) =>
            /\ Len(sent) = 3
            /\ IsLookupRequest(sent[3])
            /\ SameLookup(sent[1], sent[3])
            /\ LacksKey(result.text[3])
                => (result.kind = "raise" /\ result.exc = "QRZInvalidSession")

\* the last call established a session: the constructor of QRZXMLClient
SessionEstablishment == result.op = "QRZXMLClient"

\* C13: session establishment answered by a Session envelope without Key
\* fails with QRZInvalidSession, and an ERROR field of the envelope is the
\* message of that exception.
C13_SessionFailureCarriesError ==
    (SessionEstablishment /\ HasSession(result.text[1]) /\ ~GrantsKey(result.text[1])) =>
        /\ result.kind = "raise"
        /\ result.exc = "QRZInvalidSession"
        /\ api = NoApi
        /\ "ERROR" \in DOMAIN SessionOf(result.text[1])
            => result.msg = SessionOf(result.text[1])["ERROR"]

LastFields == parse_qs(result.text)

\* the ADIF payload of the last response body
LastPayload == LastFields["ADIF"].items[1]

\* C14: QRZLogbookClient.fetch_logbook on a successful response without an
\* ADIF key ends with an error and no Logbook; with the ADIF key present the
\* payload is parsed behind a prepended end-of-header marker and a Logbook is
\* returned.
C14_AdifKeyDecides ==
    Answered("QRZLogbookClient.fetch_logbook") =>
        /\ "ADIF" \notin DOMAIN LastFields => (result.kind = "raise" /\ ~built)
        /\ "ADIF" \in DOMAIN LastFields =>
            /\ JustBuilt
            /\ adi = read_from_string(<<Txt("<EOH>")>> \o LastPayload).adi
            /\ callsign = api.key

\* the last call was a fetch of the eQSLClient
IsFetch == result.op \in {"fetch_inbox", "fetch_outbox"}

\* the body of the first response of the last fetch
FirstBody == Render(sent[1].response.text)

\* the page names a link: the left anchor, some text, the right anchor
AnchorsInOrder(body) ==
    /\ str_in(LeftAnchor, body)
    /\ str_in(RightAnchor, body)
    /\ str_index(LeftAnchor, body) + Len(LeftAnchor) <= str_index(RightAnchor, body)

\* the text between the two anchors
Between(body) ==
    SubSeq(body, str_index(LeftAnchor, body) + Len(LeftAnchor) + 1,
           str_index(RightAnchor, body))

\* C15: a fetch sends the download request only after a successful first
\* response that holds "Your ADIF log file has been built"; the URL of the
\* download is the base URL followed by the text between the two anchors;
\* without the marker the call raises and sends no second request; a fetch
\* sends at most two requests.
C15_TriggerThenDownload ==
    IsFetch =>
        /\ Len(sent) <= 2
        /\ Len(sent) = 2 =>
            /\ sent[1].response.status_code = codes_ok
            /\ str_in(adif_found_txt, FirstBody)
        /\ (Len(sent) = 2 /\ AnchorsInOrder(FirstBody))
            => sent[2].url = eqsl_base_url \o Between(FirstBody)
        /\ (sent[1].response.status_code = codes_ok /\ ~str_in(adif_found_txt, FirstBody))
            => (result.kind = "raise" /\ Len(sent) = 1 /\ ~built)

\* C15 witness: the page named two links and the first one was downloaded
\* into a Logbook.
C15_Witness ==
    /\ IsFetch
    /\ JustBuilt
    /\ Len(sent) = 2
    /\ str_in("X1.adi", FirstBody)
    /\ sent[2].url = eqsl_base_url \o "/downloadedfiles/TE5T.adi"

\* a status outside 200..299
Non2xx(status_code) == status_code < 200 \/ status_code > 299

\* C18: a fetch that has received a non-2xx status, for its first request or
\* for the download, ends with a transport error; it does not return.
C18_Non2xxAlwaysFails ==
    (IsFetch /\ \E i \in DOMAIN sent : Non2xx(sent[i].response.status_code))
        => (result.kind = "raise" /\ result.exc = "HTTPError")

\* the lines of a generated member list: the chunks of `text` from the third
\* one on, without their line ends
MemberLines(text, n) == [i \in 1..n |-> text[1 + 2 * i].val]

\* `text` is a header line and n member lines, each ended by \r\n
ListOf(text, n) ==
    /\ Len(text) = 2 + 2 * n
    /\ text[1] # Crlf
    /\ \A i \in 1..(n + 1) : text[2 * i] = Crlf
    /\ \A i \in 1..n : \E m \in AgMembers : text[1 + 2 * i] = Txt(m.call \o ", " \o m.date)

\* the member a line stands for
MemberOf(line) == CHOOSE m \in AgMembers : m.call \o ", " \o m.date = line

\* the mapping the lines describe: callsign to date, a later line winning
Mapping(lines) ==
    [c \in {MemberOf(lines[i]).call : i \in DOMAIN lines} |->
        MemberOf(lines[CHOOSE i \in DOMAIN lines :
                    /\ MemberOf(lines[i]).call = c
                    /\ \A j \in DOMAIN lines : MemberOf(lines[j]).call = c => j <= i]).date]

\* the call returned (mapping, header) for the n lines of `text`
ReturnsList(text, n) ==
    /\ result.kind = "return"
    /\ result.value.header = text[1].val
    /\ result.value.dict_calls = Mapping(MemberLines(text, n))

\* C16 (as stated): for a body made of a header line, member lines each ended
\* by \r\n and a final \r\n, get_ag_list_dated returns the mapping from
\* callsign to date and the header line.
C16_ListWithFinalBlankLine ==
    Answered("get_ag_list_dated") =>
        \A n \in 0..MaxLines :
            (/\ Len(result.text) = 3 + 2 * n
             /\ ListOf(SubSeq(result.text, 1, 2 + 2 * n), n)
             /\ result.text[3 + 2 * n] = Crlf)
            => ReturnsList(result.text, n)

\* C16 (amended): for a body made of a header line and member lines each
\* ended by \r\n, with nothing behind the last \r\n, get_ag_list_dated returns
\* the mapping from callsign to date and the header line; with a further
\* final \r\n it raises ValueError.
C16_ListEndedByOneLineEnd ==
    Answered("get_ag_list_dated") =>
        \A n \in 0..MaxLines :
            /\ ListOf(result.text, n) => ReturnsList(result.text, n)
            /\ (/\ Len(result.text) = 3 + 2 * n
                /\ ListOf(SubSeq(result.text, 1, 2 + 2 * n), n)
                /\ result.text[3 + 2 * n] = Crlf)
               => (result.kind = "raise" /\ result.exc = "ValueError")

\* C16 witness: a list of two members has come back as a mapping with two
\* callsigns.
C16_Witness ==
    /\ Answered("get_ag_list_dated")
    /\ ListOf(result.text, 2)
    /\ result.kind = "return"
    /\ DOMAIN result.value.dict_calls = {"W1AW", "TE5T"}

\* a Logbook built from one record, a new QSO written to it, and now
\* discard_qso called with the raw record of the Logbook
WrittenThenRawDiscard ==
    /\ result.op = "write_qso"
    /\ Len(adi) = 1
    /\ log = {q \in log : q.id = <<"rec", 1>>} \cup {result.contact}
    /\ Cardinality(log) = 2
    /\ result'.op = "discard_qso"
    /\ "record" \in DOMAIN result'
    /\ result'.record = adi[1]

qso_from_adi(contact, id) ==
    QSO(id, dict_get(contact, "CALL"), dict_get(contact, "BAND"),
        dict_get(contact, "MODE"), dict_get(contact, "QSO_DATE"),
        dict_get(contact, "TIME_ON"), RuleFlag(contact))

\* C20: after construction log and adi correspond record for record: the QSO
\* normalized from each raw record equals an element of log, and every
\* element of log equals the QSO normalized from some raw record.
C20_LogMatchesAdi ==
    JustBuilt =>
        /\ \A i \in DOMAIN adi :
            \E q \in log : QSO_eq(q, qso_from_adi(adi[i], <<"adi", i>>))
        /\ \A q \in log :
            \E i \in DOMAIN adi : QSO_eq(q, qso_from_adi(adi[i], <<"adi", i>>))

\* the last call was check_status with list_logids left at its default
StatusByDefault ==
    /\ result.op = "check_status"
    /\ result.list_logids.type = "NoneType"

\* C21: check_status called without logids sends one STATUS request that
\* carries no LOGIDS parameter, and a successful answer comes back as the
\* decoded status mapping; the call does not fail before the request is sent.
C21_DefaultLogidsOmitted ==
    StatusByDefault =>
        /\ Len(sent) = 1
        /\ sent[1].url = logbook_base_url
        /\ sent[1].params["ACTION"] = "STATUS"
        /\ "LOGIDS" \notin DOMAIN sent[1].params
        /\ result.status = codes_ok =>
            (result.kind = "return" /\ result.value = parse_qs(result.text))

\* C22: LOTWClient.fetch_logbook returns a Logbook only for a response with
\* status 200 that holds the end-of-header marker; a non-2xx response without
\* the marker ends in RetrievalFailure, a non-2xx response with the marker ends
\* in a transport error, and no non-2xx response yields a Logbook.
C22_MarkerCheckBeforeStatus ==
    result.op = "fetch_logbook" =>
        /\ JustBuilt => (result.status = codes_ok /\ MarkerPresent(LastBody))
        /\ (Non2xx(result.status) /\ ~MarkerPresent(LastBody)) =>
            (result.kind = "raise" /\ result.exc = "RetrievalFailure")
        /\ (Non2xx(result.status) /\ MarkerPresent(LastBody)) =>
            (result.kind = "raise" /\ result.exc = "HTTPError")
        /\ Non2xx(result.status) => (~JustBuilt /\ ~built)

\* the lookup that has just ended asked for a new session
Reestablished == IsLookup /\ Len(sent) >= 2 /\ IsSessionRequest(sent[2])

\* C23: the session key of a QRZXMLClient is the key granted by the latest
\* successful session establishment: the constructor stores the key it is
\* granted; a lookup that re-establishes the session and is granted a key
\* leaves that key in session_key; a re-establishment whose Session envelope
\* grants no key raises QRZInvalidSession and leaves session_key as it was;
\* a lookup that asks for no session leaves session_key as it was.
C23_SessionKeyFollowsEstablishment ==
    [][ /\ (api = NoApi /\ SessionEstablishment' /\ api' # NoApi) =>
             /\ GrantsKey(result'.text[1])
             /\ api'.session_key = SessionOf(result'.text[1])["Key"]
        /\ (api.cls = "QRZXMLClient" /\ IsLookup') =>
             /\ api'.cls = "QRZXMLClient"
             /\ IF Reestablished' /\ GrantsKey(result'.text[2])
                THEN api'.session_key = SessionOf(result'.text[2])["Key"]
                ELSE api'.session_key = api.session_key
             /\ (Reestablished' /\ HasSession(result'.text[2])
                    /\ ~GrantsKey(result'.text[2])) =>
                 (result'.kind = "raise" /\ result'.exc = "QRZInvalidSession")
      ]_vars

\* C23 witness: a lookup was sent with one session key, asked for a new
\* session, and has left the client with the different key it was granted.
C23_Witness ==
    /\ Reestablished
    /\ GrantsKey(result.text[2])
    /\ api.session_key = SessionOf(result.text[2])["Key"]
    /\ sent[1].params["s"] # api.session_key

====
